---- MODULE Spec2Model ----
(***************************************************************************)
(* Context enrichment window around a retrieved chunk                      *)
(* (all_rag_techniques/context_enrichment_window_around_chunk.ipynb).       *)
(*                                                                         *)
(* The model follows one run of the notebook's pipeline:                   *)
(*   split_text_to_chunks_with_indices  (the while loop, one step per      *)
(*                                       iteration)                        *)
(*   FAISS.from_documents               (the vector store is filled)       *)
(*   retrieve_with_context_overlap      (search, then per hit: collect     *)
(*                                       neighbours, sort, concatenate,    *)
(*                                       append)                           *)
(*                                                                         *)
(* A text is a sequence of characters.  A character is modelled by the     *)
(* position it has in the source text, so all characters of a text are     *)
(* distinct: slicing and concatenation never look at a character, hence    *)
(* two texts built by them are equal for every source text exactly when    *)
(* they are equal for the text of distinct characters.                     *)
(***************************************************************************)
EXTENDS Integers, Sequences, FiniteSets

VARIABLES
    pc,                 \* position in the pipeline
    text,               \* split_text_to_chunks_with_indices: text
    chunk_size,         \* chunk_size (the same value is passed to both functions)
    chunk_overlap,      \* chunk_overlap (the same value is passed to both functions)
    chunks,             \* split_text_to_chunks_with_indices: chunks
    start,              \* split_text_to_chunks_with_indices: start
    vectorstore,        \* the documents held by the vector store, in scan order
    k,                  \* retrieve_with_context_overlap: k
    num_neighbors,      \* retrieve_with_context_overlap: num_neighbors
    relevant_chunks,    \* the hits: references (positions) into vectorstore
    hit,                \* number of hits the for loop has taken so far
    current_index,      \* metadata index of the hit being processed
    neighbor_chunks,    \* working list: references (positions) into vectorstore
    i,                  \* loop variable of the neighbour loop
    pending,            \* neighbour lookups dispatched and not yet completed
    reordered,          \* history: a lookup of this hit completed out of loop order
    concatenated_text,  \* window text of the hit being processed
    result_sequences    \* the windows returned so far

vars == <<pc, text, chunk_size, chunk_overlap, chunks, start, vectorstore, k,
          num_neighbors, relevant_chunks, hit, current_index, neighbor_chunks,
          i, pending, reordered, concatenated_text, result_sequences>>

---------------------------------------------------------------------------
(* Bounds of the model *)

MaxLen == 5
MaxChunkSize == 3
MaxLoop == 3
MaxK == 2
MaxNeighbors == 2

(* The notebook's own parameters *)
chunks_size_nb == 200
chunk_overlap_nb == 100

Min(a, b) == IF a < b THEN a ELSE b
Max(a, b) == IF a > b THEN a ELSE b

TextOfLen(n) == [p \in 1..n |-> p]
Texts == {TextOfLen(n) : n \in 0..MaxLen}
ChunkSizes == (-1)..MaxChunkSize
ChunkOverlaps == (-1)..MaxChunkSize

---------------------------------------------------------------------------
(* Python's s[a:b] on a str: a negative bound counts from the end, both    *)
(* bounds are clipped to 0..len(s), an empty range gives "".               *)
PySlice(s, a, b) ==
    LET n  == Len(s)
        lo == IF a < 0 THEN Max(a + n, 0) ELSE Min(a, n)
        hi == IF b < 0 THEN Max(b + n, 0) ELSE Min(b, n)
    IN  IF hi <= lo THEN << >> ELSE SubSeq(s, lo + 1, hi)

(* Python's s[a:] *)
PySliceFrom(s, a) == PySlice(s, a, Len(s))

(* Document(page_content=chunk, metadata={"index": n, "text": text}).      *)
(* metadata["text"] is a copy of the whole text that no code reads.        *)
Document(content, n) == [page_content |-> content, has_index |-> TRUE, index |-> n]

(* A document whose metadata has no "index" key. *)
DocumentNoIndex == [page_content |-> << >>, has_index |-> FALSE, index |-> 0]

---------------------------------------------------------------------------
(* split_text_to_chunks_with_indices *)

Init ==
    /\ pc = "split"
    /\ text \in Texts
    /\ chunk_size \in ChunkSizes
    /\ chunk_overlap \in ChunkOverlaps
    /\ chunks = << >>
    /\ start = 0
    /\ vectorstore = << >>
    /\ k = 0
    /\ num_neighbors = 0
    /\ relevant_chunks = << >>
    /\ hit = 0
    /\ current_index = 0
    /\ neighbor_chunks = << >>
    /\ i = 0
    /\ pending = {}
    /\ reordered = FALSE
    /\ concatenated_text = << >>
    /\ result_sequences = << >>

(* The loop condition `start < len(text)`; an off-by-one variant *)
LoopConditionInclusive(s, t) == s <= Len(t)

LoopCondition(s, t) == s < Len(t)

(* `end = start + chunk_size`; a variant one character too long *)
SliceEndPlusOne(s, size) == s + size + 1

SliceEnd(s, size) == s + size

(* `start += chunk_size - chunk_overlap`; a variant that forgets the overlap *)
NextStartNoOverlap(s, size, overlap) == s + size

NextStart(s, size, overlap) == s + size - overlap

(* One iteration of `while start < len(text)`.  With a step that is not    *)
(* positive the loop never ends; the model follows it for MaxLoop          *)
(* iterations.                                                             *)
SplitStep ==
    /\ pc = "split"
    /\ LoopCondition(start, text)
    /\ (chunk_size - chunk_overlap > 0 \/ Len(chunks) < MaxLoop)
    /\ LET end   == SliceEnd(start, chunk_size)
           chunk == PySlice(text, start, end)
       IN  chunks' = Append(chunks, Document(chunk, Len(chunks)))
    /\ start' = NextStart(start, chunk_size, chunk_overlap)
    /\ UNCHANGED <<pc, text, chunk_size, chunk_overlap, vectorstore, k,
                   num_neighbors, relevant_chunks, hit, current_index,
                   neighbor_chunks, i, pending, reordered, concatenated_text,
                   result_sequences>>

(* The loop condition fails: return chunks. *)
SplitReturn ==
    /\ pc = "split"
    /\ ~LoopCondition(start, text)
    /\ pc' = "chunked"
    /\ UNCHANGED <<text, chunk_size, chunk_overlap, chunks, start, vectorstore,
                   k, num_neighbors, relevant_chunks, hit, current_index,
                   neighbor_chunks, i, pending, reordered, concatenated_text,
                   result_sequences>>

---------------------------------------------------------------------------
(* The vector store.  retrieve_with_context_overlap and get_chunk_by_index *)
(* take the store as an argument: it holds the chunks of the text, all of  *)
(* them or all but one, and possibly one document without an index.        *)

RECURSIVE WithoutIndex(_, _)
WithoutIndex(docs, absent) ==
    IF docs = << >> THEN << >>
    ELSE LET rest == WithoutIndex(Tail(docs), absent)
         IN  IF Head(docs).index \in absent THEN rest ELSE <<Head(docs)>> \o rest

FromDocuments ==
    /\ pc = "chunked"
    /\ \E absent \in {{}} \cup {{n} : n \in 0..(Len(chunks) - 1)} :
       \E extra \in BOOLEAN :
          vectorstore' = WithoutIndex(chunks, absent)
                           \o (IF extra THEN <<DocumentNoIndex>> ELSE << >>)
    /\ pc' = "indexed"
    /\ UNCHANGED <<text, chunk_size, chunk_overlap, chunks, start, k,
                   num_neighbors, relevant_chunks, hit, current_index,
                   neighbor_chunks, i, pending, reordered, concatenated_text,
                   result_sequences>>

(* get_chunk_by_index: the first document of the scan whose metadata has   *)
(* an index equal to target_index; 0 stands for None.                      *)
GetChunkByIndex(store, target_index) ==
    LET match == {p \in 1..Len(store) :
                    store[p].has_index /\ store[p].index = target_index}
    IN  IF match = {} THEN 0
        ELSE CHOOSE p \in match : \A q \in match : p <= q

---------------------------------------------------------------------------
(* retrieve_with_context_overlap *)

(* retriever.get_relevant_documents(query): min(k, ntotal) documents of    *)
(* the store, all different, in the order the ranking gives them.          *)
Rankings(store, kk) ==
    LET m == Min(kk, Len(store))
    IN  {r \in [1..m -> 1..Len(store)] :
            \A a, b \in 1..m : a # b => r[a] # r[b]}

Search ==
    /\ pc = "indexed"
    /\ \E kk \in 1..MaxK, nn \in 0..MaxNeighbors :
          /\ k' = kk
          /\ num_neighbors' = nn
          /\ \E r \in Rankings(vectorstore, kk) : relevant_chunks' = r
    /\ result_sequences' = << >>
    /\ hit' = 0
    /\ pc' = "for_chunk"
    /\ UNCHANGED <<text, chunk_size, chunk_overlap, chunks, start, vectorstore,
                   current_index, neighbor_chunks, i, pending, reordered,
                   concatenated_text>>

(* `for chunk in relevant_chunks`, a hit without index: continue. *)
SkipChunk ==
    /\ pc = "for_chunk"
    /\ hit < Len(relevant_chunks)
    /\ ~vectorstore[relevant_chunks[hit + 1]].has_index
    /\ hit' = hit + 1
    /\ UNCHANGED <<pc, text, chunk_size, chunk_overlap, chunks, start,
                   vectorstore, k, num_neighbors, relevant_chunks,
                   current_index, neighbor_chunks, i, pending, reordered,
                   concatenated_text, result_sequences>>

(* A hit with an index: neighbor_chunks = [chunk], enter the neighbour     *)
(* loop.                                                                   *)
SeedChunk ==
    /\ pc = "for_chunk"
    /\ hit < Len(relevant_chunks)
    /\ vectorstore[relevant_chunks[hit + 1]].has_index
    /\ hit' = hit + 1
    /\ current_index' = vectorstore[relevant_chunks[hit + 1]].index
    /\ neighbor_chunks' = <<relevant_chunks[hit + 1]>>
    /\ i' = 1
    /\ pending' = {}
    /\ reordered' = FALSE
    /\ pc' = "collect"
    /\ UNCHANGED <<text, chunk_size, chunk_overlap, chunks, start, vectorstore,
                   k, num_neighbors, relevant_chunks, concatenated_text,
                   result_sequences>>

(* `if prev_chunk: neighbor_chunks.insert(0, prev_chunk)` *)
InsertPrev(l, prev_chunk) == IF prev_chunk # 0 THEN <<prev_chunk>> \o l ELSE l

(* `if next_chunk: neighbor_chunks.append(next_chunk)` *)
AppendNext(l, next_chunk) == IF next_chunk # 0 THEN Append(l, next_chunk) ELSE l

(* The neighbour loop with a `break` at the first distance where a lookup  *)
(* finds nothing.                                                          *)
CollectNeighborsUntilGap ==
    /\ pc = "collect"
    /\ i <= num_neighbors
    /\ pending = {}
    /\ LET prev_chunk == GetChunkByIndex(vectorstore, current_index - i)
           next_chunk == GetChunkByIndex(vectorstore, current_index + i)
       IN  /\ neighbor_chunks' =
                  AppendNext(InsertPrev(neighbor_chunks, prev_chunk), next_chunk)
           /\ i' = IF prev_chunk = 0 \/ next_chunk = 0
                   THEN num_neighbors + 1 ELSE i + 1
    /\ UNCHANGED <<pc, text, chunk_size, chunk_overlap, chunks, start,
                   vectorstore, k, num_neighbors, relevant_chunks, hit,
                   current_index, pending, reordered, concatenated_text,
                   result_sequences>>

(* One iteration of `for i in range(1, num_neighbors + 1)`. *)
CollectNeighbors ==
    /\ pc = "collect"
    /\ i <= num_neighbors
    /\ pending = {}
    /\ LET prev_chunk == GetChunkByIndex(vectorstore, current_index - i)
           next_chunk == GetChunkByIndex(vectorstore, current_index + i)
       IN  neighbor_chunks' =
               AppendNext(InsertPrev(neighbor_chunks, prev_chunk), next_chunk)
    /\ i' = i + 1
    /\ UNCHANGED <<pc, text, chunk_size, chunk_overlap, chunks, start,
                   vectorstore, k, num_neighbors, relevant_chunks, hit,
                   current_index, pending, reordered, concatenated_text,
                   result_sequences>>

(* key=lambda x: x.metadata.get('index', 0) *)
SortKey(p) == IF vectorstore[p].has_index THEN vectorstore[p].index ELSE 0

(* list.sort is stable: x goes after every element whose key is <= its own *)
RECURSIVE InsertByKey(_, _)
InsertByKey(sorted, x) ==
    IF sorted = << >> THEN <<x>>
    ELSE LET n == Len(sorted)
         IN  IF SortKey(sorted[n]) <= SortKey(x) THEN Append(sorted, x)
             ELSE Append(InsertByKey(SubSeq(sorted, 1, n - 1), x), sorted[n])

(* the list left in the order the chunks were added *)
KeepArrivalOrder(l) == l

RECURSIVE SortByIndex(_)
SortByIndex(l) ==
    IF l = << >> THEN << >>
    ELSE InsertByKey(SortByIndex(SubSeq(l, 1, Len(l) - 1)), l[Len(l)])

(* neighbor_chunks.sort(key=...) once the neighbour loop has ended. *)
SortChunks ==
    /\ pc = "collect"
    /\ i > num_neighbors
    /\ pending = {}
    /\ neighbor_chunks' = SortByIndex(neighbor_chunks)
    /\ pc' = "sorted"
    /\ UNCHANGED <<text, chunk_size, chunk_overlap, chunks, start, vectorstore,
                   k, num_neighbors, relevant_chunks, hit, current_index, i,
                   pending, reordered, concatenated_text, result_sequences>>

(* a later chunk appended whole *)
UntrimmedChunk(current_chunk, size, overlap) == current_chunk

(* The tail of one later chunk: current_chunk[overlap_start:] with         *)
(* overlap_start = chunk_size - chunk_overlap.                             *)
TrimmedChunk(current_chunk, size, overlap) ==
    LET overlap_start == size - overlap
    IN  PySliceFrom(current_chunk, overlap_start)

(* concatenated_text = l[0].page_content, then += the trimmed later ones   *)
RECURSIVE ConcatenateChunks(_, _, _)
ConcatenateChunks(l, size, overlap) ==
    IF Len(l) = 1 THEN vectorstore[l[1]].page_content
    ELSE ConcatenateChunks(SubSeq(l, 1, Len(l) - 1), size, overlap)
           \o TrimmedChunk(vectorstore[l[Len(l)]].page_content, size, overlap)

Concatenate ==
    /\ pc = "sorted"
    /\ concatenated_text' =
           ConcatenateChunks(neighbor_chunks, chunk_size, chunk_overlap)
    /\ pc' = "concatenated"
    /\ UNCHANGED <<text, chunk_size, chunk_overlap, chunks, start, vectorstore,
                   k, num_neighbors, relevant_chunks, hit, current_index,
                   neighbor_chunks, i, pending, reordered, result_sequences>>

(* result_sequences.append(concatenated_text); a variant that adds at the front *)
AddWindowAtFront(results, window) == <<window>> \o results

AddWindow(results, window) == Append(results, window)

AppendResult ==
    /\ pc = "concatenated"
    /\ result_sequences' = AddWindow(result_sequences, concatenated_text)
    /\ pc' = "for_chunk"
    /\ UNCHANGED <<text, chunk_size, chunk_overlap, chunks, start, vectorstore,
                   k, num_neighbors, relevant_chunks, hit, current_index,
                   neighbor_chunks, i, pending, reordered, concatenated_text>>

(* The for loop has taken every hit: return result_sequences. *)
Return ==
    /\ pc = "for_chunk"
    /\ hit = Len(relevant_chunks)
    /\ pc' = "done"
    /\ UNCHANGED <<text, chunk_size, chunk_overlap, chunks, start, vectorstore,
                   k, num_neighbors, relevant_chunks, hit, current_index,
                   neighbor_chunks, i, pending, reordered, concatenated_text,
                   result_sequences>>

Next ==
    \/ SplitStep
    \/ SplitReturn
    \/ FromDocuments
    \/ Search
    \/ SkipChunk
    \/ SeedChunk
    \/ CollectNeighbors
    \/ SortChunks
    \/ Concatenate
    \/ AppendResult
    \/ Return

Spec == Init /\ [][Next]_vars

---------------------------------------------------------------------------
(* The neighbour lookups of one hit dispatched together: the 2 *           *)
(* num_neighbors calls of get_chunk_by_index complete one at a time in any *)
(* order, each adding its chunk the way the loop body does (a previous     *)
(* chunk at the front, a next chunk at the back).  The order of the loop   *)
(* (i = 1: previous, next; i = 2: previous, next; ...) is one of them.     *)

Lookups(n) == {<<d, side>> : d \in 1..n, side \in {-1, 1}}

(* l is the lookup the loop would make first among those of s *)
FirstInLoopOrder(l, s) ==
    \A m \in s : l[1] < m[1] \/ (l[1] = m[1] /\ l[2] <= m[2])

SeedChunkDispatch ==
    /\ pc = "for_chunk"
    /\ hit < Len(relevant_chunks)
    /\ vectorstore[relevant_chunks[hit + 1]].has_index
    /\ hit' = hit + 1
    /\ current_index' = vectorstore[relevant_chunks[hit + 1]].index
    /\ neighbor_chunks' = <<relevant_chunks[hit + 1]>>
    /\ i' = num_neighbors + 1
    /\ pending' = Lookups(num_neighbors)
    /\ reordered' = FALSE
    /\ pc' = "collect"
    /\ UNCHANGED <<text, chunk_size, chunk_overlap, chunks, start, vectorstore,
                   k, num_neighbors, relevant_chunks, concatenated_text,
                   result_sequences>>

CompleteLookup ==
    /\ pc = "collect"
    /\ \E l \in pending :
          LET found == GetChunkByIndex(vectorstore, current_index + l[2] * l[1])
          IN  /\ neighbor_chunks' =
                     IF l[2] = -1 THEN InsertPrev(neighbor_chunks, found)
                                  ELSE AppendNext(neighbor_chunks, found)
              /\ pending' = pending \ {l}
              /\ reordered' = (reordered \/ ~FirstInLoopOrder(l, pending))
    /\ UNCHANGED <<pc, text, chunk_size, chunk_overlap, chunks, start,
                   vectorstore, k, num_neighbors, relevant_chunks, hit,
                   current_index, i, concatenated_text, result_sequences>>

NextAnyOrder ==
    \/ SplitStep
    \/ SplitReturn
    \/ FromDocuments
    \/ Search
    \/ SkipChunk
    \/ SeedChunkDispatch
    \/ CompleteLookup
    \/ SortChunks
    \/ Concatenate
    \/ AppendResult
    \/ Return

SpecAnyOrder == Init /\ [][NextAnyOrder]_vars

---------------------------------------------------------------------------
(* The notebook's run: chunks_size = 200, chunk_overlap = 100, on a text   *)
(* of 500 characters.                                                      *)

InitScenario ==
    /\ pc = "split"
    /\ text = TextOfLen(500)
    /\ chunk_size = chunks_size_nb
    /\ chunk_overlap = chunk_overlap_nb
    /\ chunks = << >>
    /\ start = 0
    /\ vectorstore = << >>
    /\ k = 0
    /\ num_neighbors = 0
    /\ relevant_chunks = << >>
    /\ hit = 0
    /\ current_index = 0
    /\ neighbor_chunks = << >>
    /\ i = 0
    /\ pending = {}
    /\ reordered = FALSE
    /\ concatenated_text = << >>
    /\ result_sequences = << >>

SpecScenario == InitScenario /\ [][Next]_vars

---------------------------------------------------------------------------
(* Vocabulary of the properties *)

(* chunkSize > 0 and 0 <= chunkOverlap < chunkSize *)
ValidParams == chunk_size > 0 /\ 0 <= chunk_overlap /\ chunk_overlap < chunk_size

Step == chunk_size - chunk_overlap

(* ceil(a / b) for a >= 0 and b > 0 *)
CeilDiv(a, b) == (a + b - 1) \div b

(* the metadata indices of a list of references, in list order *)
IndicesOf(l) == [j \in 1..Len(l) |-> vectorstore[l[j]].index]

(* the indices of l go up by exactly one from each element to the next *)
Contiguous(l) ==
    \A j \in 1..(Len(l) - 1) :
        vectorstore[l[j + 1]].index = vectorstore[l[j]].index + 1

(* every chunk of the text is in the store *)
StoreComplete ==
    \A j \in 1..Len(chunks) : \E p \in 1..Len(vectorstore) : vectorstore[p] = chunks[j]

(* the indices a window around h with radius n is to hold: h itself and    *)
(* every index within distance n that the store can find                   *)
WindowIndices(h, n) ==
    {j \in (h - n)..(h + n) : j = h \/ GetChunkByIndex(vectorstore, j) # 0}

(* the elements of a finite set of integers, ascending *)
RECURSIVE Ascending(_)
Ascending(S) ==
    IF S = {} THEN << >>
    ELSE LET m == CHOOSE x \in S : \A y \in S : x <= y
         IN  <<m>> \o Ascending(S \ {m})

(* the references to the chunks of WindowIndices(h, n), ascending by index *)
WindowChunks(h, n) ==
    LET idx == Ascending(WindowIndices(h, n))
    IN  [j \in 1..Len(idx) |-> GetChunkByIndex(vectorstore, idx[j])]

(* chunk 0 whole, every later chunk without its leading `drop` characters *)
RECURSIVE JoinDropping(_, _)
JoinDropping(docs, drop) ==
    IF docs = << >> THEN << >>
    ELSE IF Len(docs) = 1 THEN docs[1].page_content
    ELSE JoinDropping(SubSeq(docs, 1, Len(docs) - 1), drop)
           \o PySliceFrom(docs[Len(docs)].page_content, drop)

(* the hits that have an index, in hit order *)
IndexedHits == SelectSeq(relevant_chunks, LAMBDA p : vectorstore[p].has_index)

---------------------------------------------------------------------------
(* C1: for valid parameters, the window that retrieve_with_context_overlap *)
(* merges from ALL chunks 0..N-1 of the text (first chunk whole, every     *)
(* later chunk without its leading chunk_size - chunk_overlap characters)  *)
(* is the text itself.                                                     *)
MergeRuleRoundTrip ==
    (/\ pc = "concatenated"
     /\ ValidParams
     /\ IndicesOf(neighbor_chunks) = [j \in 1..Len(chunks) |-> j - 1])
    => concatenated_text = text

(* C2: for valid parameters, the chunks returned by                        *)
(* split_text_to_chunks_with_indices, joined in index order with chunk 0   *)
(* whole and every later chunk without its leading chunk_overlap           *)
(* characters, give back the text.                                         *)
ChunkerRoundTrip ==
    (pc = "chunked" /\ ValidParams) => JoinDropping(chunks, chunk_overlap) = text

(* C2 witness: a returned split with overlap whose trailing chunks were    *)
(* clipped at the end of the text.                                         *)
ChunkerRoundTripWitness ==
    /\ pc = "chunked"
    /\ ValidParams
    /\ chunk_overlap > 0
    /\ Len(chunks) >= 3
    /\ Len(chunks[Len(chunks)].page_content) < chunk_size
    /\ Len(chunks[Len(chunks) - 1].page_content) < chunk_size

(* C3 as stated: N = 1 when len(T) <= chunkSize, the single chunk being    *)
(* the whole text, and N = ceil((len(T) - overlap) / step) otherwise.      *)
CountLawAsStated ==
    (pc = "chunked" /\ ValidParams)
    => IF Len(text) <= chunk_size
       THEN Len(chunks) = 1 /\ chunks[1].page_content = text
       ELSE Len(chunks) = CeilDiv(Len(text) - chunk_overlap, Step)

(* C3 amended: for valid parameters the number of chunks returned is       *)
(* ceil(len(T) / step): none for the empty text, and a single chunk (the   *)
(* whole text) exactly when 0 < len(T) <= step.                            *)
CountLaw ==
    (pc = "chunked" /\ ValidParams)
    => /\ Len(chunks) = CeilDiv(Len(text), Step)
       /\ (Len(chunks) = 1 <=> (0 < Len(text) /\ Len(text) <= Step))
       /\ (Len(chunks) = 1 => chunks[1].page_content = text)

(* C3 witness: a text no longer than chunk_size split into several chunks, *)
(* and a longer text split into more chunks than the stated formula gives. *)
CountLawWitness ==
    /\ pc = "chunked"
    /\ ValidParams
    /\ Len(text) > chunk_size
    /\ Len(chunks) > CeilDiv(Len(text) - chunk_overlap, Step)
    /\ Len(chunks) = CeilDiv(Len(text), Step)

(* C4 as stated: every chunk is at most chunk_size long and every chunk    *)
(* but the last is exactly chunk_size long.                                *)
BoundednessAsStated ==
    (pc = "chunked" /\ ValidParams)
    => \A j \in 1..Len(chunks) :
          /\ Len(chunks[j].page_content) <= chunk_size
          /\ (j < Len(chunks) => Len(chunks[j].page_content) = chunk_size)

(* C4 amended: for valid parameters chunk j (0-based) is                   *)
(* min(chunk_size, len(T) - j * step) characters long: never empty, never  *)
(* longer than chunk_size, exactly chunk_size unless its slice is clipped  *)
(* at the end of the text, and never longer than the chunk before it; the  *)
(* clipped chunks are the trailing ones, and there can be several.         *)
Boundedness ==
    (pc = "chunked" /\ ValidParams)
    => \A j \in 1..Len(chunks) :
          /\ Len(chunks[j].page_content)
               = Min(chunk_size, Len(text) - (j - 1) * Step)
          /\ Len(chunks[j].page_content) >= 1
          /\ Len(chunks[j].page_content) <= chunk_size
          /\ (j > 1 => Len(chunks[j].page_content)
                          <= Len(chunks[j - 1].page_content))

(* C4 witness: a chunk that is not the last one is shorter than chunk_size *)
BoundednessWitness ==
    /\ pc = "chunked"
    /\ ValidParams
    /\ \E j \in 1..(Len(chunks) - 1) : Len(chunks[j].page_content) < chunk_size

(* C5: with chunk_size <= 0 or chunk_overlap >= chunk_size the split of a  *)
(* non-empty text ends in a configuration error: it emits no chunk, does   *)
(* not loop and does not return a list of chunks.                          *)
InvalidParamsRejected ==
    ((chunk_size <= 0 \/ chunk_overlap >= chunk_size) /\ text # << >>)
    => (chunks = << >> /\ pc \in {"split", "config_error"})

(* C6: for valid parameters, when the chunks merged for a hit have         *)
(* consecutive indices lo..hi, the window is T[lo * step : hi * step +     *)
(* len(chunk hi)].                                                         *)
ContiguousWindowIsSourceSpan ==
    (pc = "concatenated" /\ ValidParams /\ Contiguous(neighbor_chunks))
    => LET n  == Len(neighbor_chunks)
           lo == vectorstore[neighbor_chunks[1]].index
           hi == vectorstore[neighbor_chunks[n]].index
       IN  concatenated_text =
               PySlice(text, lo * Step,
                       hi * Step + Len(vectorstore[neighbor_chunks[n]].page_content))

(* C7: when retrieve_with_context_overlap returns, result_sequences holds  *)
(* one window per hit that has an index, in hit order, each the window of  *)
(* that hit alone; its length is the number of hits minus the number of    *)
(* hits without index, at most k.                                          *)
OneWindowPerIndexedHitInOrder ==
    pc = "done"
    => /\ Len(result_sequences) = Len(IndexedHits)
       /\ Len(result_sequences)
            = Len(relevant_chunks)
                - Cardinality({j \in 1..Len(relevant_chunks) :
                                 ~vectorstore[relevant_chunks[j]].has_index})
       /\ Len(result_sequences) <= k
       /\ \A j \in 1..Len(IndexedHits) :
             result_sequences[j] =
                 ConcatenateChunks(
                     WindowChunks(vectorstore[IndexedHits[j]].index, num_neighbors),
                     chunk_size, chunk_overlap)

(* C7 witness: a returned run whose first hit had no index and whose       *)
(* second hit gave a window.                                               *)
SkippedHitWitness ==
    /\ pc = "done"
    /\ Len(relevant_chunks) = 2
    /\ ~vectorstore[relevant_chunks[1]].has_index
    /\ Len(result_sequences) = 1
    /\ result_sequences[1] # << >>

(* C8 as stated: in the notebook's run on a text of 500 characters, a hit  *)
(* at index 0 with num_neighbors = 2 and all five chunks in the store      *)
(* finds no chunk at -1 or -2, merges the chunks 0, 1, 2 and gives         *)
(* T[0:300].                                                               *)
BoundaryScenarioAsStated ==
    (/\ pc = "concatenated"
     /\ StoreComplete
     /\ current_index = 0
     /\ num_neighbors = 2)
    => /\ [j \in 1..Len(chunks) |-> chunks[j].index] = <<0, 1, 2, 3, 4>>
       /\ GetChunkByIndex(vectorstore, -1) = 0
       /\ GetChunkByIndex(vectorstore, -2) = 0
       /\ IndicesOf(neighbor_chunks) = <<0, 1, 2>>
       /\ concatenated_text = PySlice(text, 0, 300)

(* C8 amended: the same run gives T[0:400]: chunk 2 covers T[200:400].     *)
BoundaryScenario ==
    (/\ pc = "concatenated"
     /\ StoreComplete
     /\ current_index = 0
     /\ num_neighbors = 2)
    => /\ [j \in 1..Len(chunks) |-> chunks[j].index] = <<0, 1, 2, 3, 4>>
       /\ \A j \in 1..Len(chunks) :
             chunks[j].page_content
                 = PySlice(text, (j - 1) * 100, (j - 1) * 100 + 200)
       /\ GetChunkByIndex(vectorstore, -1) = 0
       /\ GetChunkByIndex(vectorstore, -2) = 0
       /\ IndicesOf(neighbor_chunks) = <<0, 1, 2>>
       /\ concatenated_text = PySlice(text, 0, 400)
       /\ Len(concatenated_text) = 400

(* C8 witness: the window of the hit at index 0 with two neighbours has    *)
(* been merged from a complete store.                                      *)
BoundaryScenarioWitness ==
    /\ pc = "concatenated"
    /\ StoreComplete
    /\ Len(text) = 500
    /\ current_index = 0
    /\ num_neighbors = 2
    /\ Len(neighbor_chunks) = 3

(* C9: after the neighbour loop and the sort, neighbor_chunks holds        *)
(* exactly the hit and every chunk within distance num_neighbors that      *)
(* get_chunk_by_index finds, each once, in strictly ascending index order. *)
WorkingSetIsHitAndFoundNeighbors ==
    pc = "sorted"
    => /\ {vectorstore[neighbor_chunks[j]].index : j \in 1..Len(neighbor_chunks)}
            = WindowIndices(current_index, num_neighbors)
       /\ Len(neighbor_chunks)
            = Cardinality(WindowIndices(current_index, num_neighbors))
       /\ \A j \in 1..Len(neighbor_chunks) : vectorstore[neighbor_chunks[j]].has_index
       /\ \A j \in 1..(Len(neighbor_chunks) - 1) :
             vectorstore[neighbor_chunks[j]].index
                 < vectorstore[neighbor_chunks[j + 1]].index

(* C9 witness: the chunk at distance 1 on one side was not found and the   *)
(* chunk at distance 2 on that side is in the sorted working list.         *)
IndexGapWitness ==
    /\ pc = "sorted"
    /\ num_neighbors = 2
    /\ GetChunkByIndex(vectorstore, current_index + 1) = 0
    /\ \E j \in 1..Len(neighbor_chunks) :
          vectorstore[neighbor_chunks[j]].index = current_index + 2
    /\ ~Contiguous(neighbor_chunks)

(* C10: whatever the order in which the neighbour lookups of a hit         *)
(* complete, the sorted working list is the list of found chunks in        *)
(* ascending index order and the window is the merge of that list: both    *)
(* depend only on which lookups found a chunk.                             *)
CompletionOrderIrrelevant ==
    /\ pc \in {"sorted", "concatenated"}
         => neighbor_chunks = WindowChunks(current_index, num_neighbors)
    /\ pc = "concatenated"
         => concatenated_text =
                ConcatenateChunks(WindowChunks(current_index, num_neighbors),
                                  chunk_size, chunk_overlap)

(* C10 witness: a window merged from at least three chunks whose lookups   *)
(* completed in another order than the loop's.                             *)
OutOfOrderCompletionWitness ==
    /\ pc = "concatenated"
    /\ reordered
    /\ Len(neighbor_chunks) >= 3
    /\ ValidParams

====
